---- MODULE Spec2Model ----
(***************************************************************************)
(* A model of dedicatus' inventory store (models/inventory.go) and of its  *)
(* Knowledge Graph lookup cache (utils, the kgMemcacheKey file).           *)
(*                                                                         *)
(* Spec      the inventory store under concurrent callers: every datastore *)
(*           access of every exported function is one step of a caller.    *)
(* SpecKG    the Knowledge Graph lookup with its memcache entries.         *)
(* SpecList  FindInventories over a store of up to MaxRecords entities.    *)
(*                                                                         *)
(* The datastore is modelled as the library documents it: a Get, Put or    *)
(* Delete outside a transaction takes effect at once; a transaction reads  *)
(* a snapshot, buffers its writes, applies them in one step at commit, and *)
(* fails with ErrConcurrentTransaction when an entity group it touched was *)
(* written meanwhile (RunInTransaction then runs the function again, three *)
(* attempts in all).  Every Inventory key has no parent, so every key is   *)
(* its own entity group.  Queries read the entities as they are at the     *)
(* moment the query runs.                                                  *)
(***************************************************************************)
EXTENDS Integers, Sequences, FiniteSets, TLC

VARIABLES
    store,      \* datastore: a function from the keys that exist to Inventory
    pc,         \* per caller: the place it is at in the function it runs
    op,         \* per caller: the function it runs and its arguments
    loc,        \* per caller: the function's local variables
    ret,        \* per caller: what the function returned
    tx,         \* per caller: its datastore transaction
    clock,      \* time.Now(), a counter that moves on when it is read
    ncalls,     \* the number of calls made so far
    cache,      \* memcache: per query the set holding its item's value
    kgpc,       \* per caller of the KG functions: its place
    kg,         \* per caller of the KG functions: arguments, locals, result
    backendCalls, \* per query: calls of the Knowledge Graph service so far
    lst         \* FindInventories: the entities, the arguments and the result

vars == <<store, pc, op, loc, ret, tx, clock, ncalls,
          cache, kgpc, kg, backendCalls, lst>>
storeVars == <<store, pc, op, loc, ret, tx, clock, ncalls>>
kgVars == <<cache, kgpc, kg, backendCalls>>
\* What a step of the inventory store leaves alone.
others == <<cache, kgpc, kg, backendCalls, lst>>

(***************************************************************************)
(* Bounds of the model.                                                    *)
(***************************************************************************)
MaxCalls == 2

Procs == {1, 2}
\* The file IDs, in the order of their datastore keys.
KeyOrder == <<"f1", "f2">>
FileIDs == {KeyOrder[n] : n \in DOMAIN KeyOrder}
Users == {1, 2, 3}
Admins == {3}
PersonalityLists == {<<"p1">>, <<"p2">>}
Contents == {<<"a">>, <<"b">>}
SizeHints == {0, 1}

(***************************************************************************)
(* Errors.                                                                 *)
(***************************************************************************)
Nil == "nil"
ErrNoSuchEntity == "datastore: no such entity"
ErrConcurrentTransaction == "datastore: concurrent transaction"
ErrorOnlyAdminCanUpdateInventory == "Only admins can update an existing GIF."
ErrInfra == "infrastructure failure"

(***************************************************************************)
(* type Inventory, and new(Inventory).                                     *)
(***************************************************************************)
FileTypeMPEG4GIF == "MPEG4GIF"

ZeroInventory ==
    [FileID |-> "", FileType |-> "", Personality |-> <<>>, Creator |-> 0,
     UsageCount |-> 0, LastUsed |-> 0, MD5Sum |-> <<>>, FileSize |-> 0]

inventoryKey(fileID) == fileID

IsAdmin(userID) == userID \in Admins

\* md5.Sum(b): the digest of the bytes b, one digest per content.
Md5Sum(b) == <<"md5">> \o b

(***************************************************************************)
(* The datastore.                                                          *)
(***************************************************************************)
\* nds.Get(ctx, key, i): i is loaded, or left as it was with ErrNoSuchEntity.
NdsGet(s, key, i) ==
    IF key \in DOMAIN s THEN [i |-> s[key], err |-> Nil]
    ELSE [i |-> i, err |-> ErrNoSuchEntity]

NdsPut(s, key, i) ==
    [k \in DOMAIN s \cup {key} |-> IF k = key THEN i ELSE s[k]]

NdsDelete(s, key) == [k \in DOMAIN s \ {key} |-> s[k]]

\* A transaction's buffered writes, applied in the order they were made.
RECURSIVE ApplyMutations(_, _)
ApplyMutations(s, muts) ==
    IF muts = <<>> THEN s
    ELSE LET m == Head(muts)
             s1 == IF m.kind = "put" THEN NdsPut(s, m.key, m.i)
                   ELSE NdsDelete(s, m.key)
         IN  ApplyMutations(s1, Tail(muts))

NoTx == [active |-> FALSE, attempt |-> 0, groups |-> {}, conflict |-> FALSE]

\* The attempts of RunInTransaction with the default TransactionOptions.
Attempts == 3

\* Caller p wrote `keys`: every other open transaction on one of them conflicts.
Conflicts(t, p, keys) ==
    [q \in Procs |->
        IF q # p /\ t[q].active /\ t[q].groups \cap keys # {}
        THEN [t[q] EXCEPT !.conflict = TRUE] ELSE t[q]]

(***************************************************************************)
(* Callers.                                                                *)
(***************************************************************************)
NoOp == [name |-> "none", fileID |-> "", newFileID |-> "", personality |-> <<>>,
         userID |-> 0, fileSize |-> 0]
\* fetchErr is the value err has between lines 74 and 77 of GetInventoryByFile.
NoLoc == [i |-> ZeroInventory, keys |-> <<>>, sum |-> <<>>, err |-> Nil,
          fetchErr |-> Nil, newFileID |-> "", size |-> 0]
NoRet == [i |-> {}, err |-> Nil]

\* return i, err (i a set: empty for a nil pointer), the locals left as l
ReturnWith(p, i, err, l) ==
    /\ ret' = [ret EXCEPT ![p] = [i |-> i, err |-> err]]
    /\ pc' = [pc EXCEPT ![p] = "done"]
    /\ loc' = [loc EXCEPT ![p] = l]

Return(p, i, err) == ReturnWith(p, i, err, NoLoc)

Goto(p, label) == pc' = [pc EXCEPT ![p] = label]

Args(name, newFileIDs, personalities, userIDs, fileSizes) ==
    [name : {name}, fileID : FileIDs, newFileID : newFileIDs,
     personality : personalities, userID : userIDs, fileSize : fileSizes]

Call(p) ==
    /\ pc[p] = "done"
    /\ ncalls < MaxCalls
    /\ ncalls' = ncalls + 1
    /\ \E o \in Args("GetInventory", {""}, {<<>>}, {0}, {0})
           \cup Args("GetInventoryByFile", {""}, {<<>>}, {0}, SizeHints)
           \cup Args("CreateInventory", {""}, PersonalityLists, Users, {0})
           \cup Args("IncrementUsageCounter", {""}, {<<>>}, {0}, {0})
           \cup Args("ReplaceFileID", FileIDs, {<<>>}, {0}, {0})
           \cup Args("UpdateFileMetadata", {""}, {<<>>}, {0}, {0}) :
          /\ op' = [op EXCEPT ![p] = o]
          /\ pc' = [pc EXCEPT ![p] = o.name]
    /\ loc' = [loc EXCEPT ![p] = NoLoc]
    /\ ret' = [ret EXCEPT ![p] = NoRet]
    /\ UNCHANGED <<store, tx, clock, others>>

(***************************************************************************)
(* GetInventory                                                            *)
(***************************************************************************)
GetInventory(s, fileID) == NdsGet(s, inventoryKey(fileID), ZeroInventory)

GetInventory_Step(p) ==
    /\ pc[p] = "GetInventory"
    /\ LET r == GetInventory(store, op[p].fileID)
       IN  Return(p, {r.i}, r.err)
    /\ UNCHANGED <<store, op, tx, clock, ncalls, others>>

(***************************************************************************)
(* GetInventoryByFile: a count query, the fetch of the file, a query on    *)
(* the digest and a Get; no transaction.                                   *)
(***************************************************************************)
\* NewQuery(inventoryEntityKind).Filter(field + " =", value).KeysOnly(): the
\* keys, in key order, of the entities whose field has the value.
QueryKeys(s, field, value) ==
    SelectSeq(KeyOrder, LAMBDA k : k \in DOMAIN s /\ s[k][field] = value)

\* What tgapi.FetchFileInfo gives: the file's ID and size, its bytes, an error.
\* A failed fetch gives no bytes.
FetchResults ==
    [fileID : FileIDs, b : Contents, err : {Nil}]
    \cup [fileID : {""}, b : {<<>>}, err : {ErrInfra}]

GetInventoryByFile_Count(p) ==
    /\ pc[p] = "GetInventoryByFile"
    /\ \E err \in {Nil, ErrInfra} :
         LET count == Len(QueryKeys(store, "FileSize", op[p].fileSize))
         IN  IF err # Nil THEN Return(p, {}, err)
             ELSE IF count = 0 THEN Return(p, {}, Nil)
             ELSE /\ Goto(p, "GetInventoryByFile_Query")
                  /\ UNCHANGED <<ret, loc>>
    /\ UNCHANGED <<store, op, tx, clock, ncalls, others>>

\* HashMatchOutcome without the branch for len(keys) > 1.
HashMatchOutcomeNoConflictCheck(n) ==
    IF n = 0 THEN "nomatch" ELSE "get"

\* What follows from the number of keys the digest query found.
HashMatchOutcome(n) ==
    IF n = 0 THEN "nomatch"
    ELSE IF n > 1 THEN "nomatch"    \* "Hash conflict (%x)!"
    ELSE "get"

GetInventoryByFile_Query(p) ==
    /\ pc[p] = "GetInventoryByFile_Query"
    /\ \E f \in FetchResults, err \in {Nil, ErrInfra} :
         \* the error of the fetch is overwritten by that of the query
         LET s == Md5Sum(f.b)
             keys == IF err = Nil
                     THEN QueryKeys(store, "MD5Sum", s) ELSE <<>>
             l == [loc[p] EXCEPT !.keys = keys, !.sum = s, !.err = err,
                                 !.fetchErr = f.err]
         IN  IF err # Nil THEN ReturnWith(p, {}, err, l)
             ELSE IF HashMatchOutcome(Len(keys)) = "nomatch"
                  THEN ReturnWith(p, {}, Nil, l)
             ELSE /\ loc' = [loc EXCEPT ![p] = l]
                  /\ Goto(p, "GetInventoryByFile_Get")
                  /\ UNCHANGED ret
    /\ UNCHANGED <<store, op, tx, clock, ncalls, others>>

GetInventoryByFile_Get(p) ==
    /\ pc[p] = "GetInventoryByFile_Get"
    /\ LET r == NdsGet(store, loc[p].keys[1], ZeroInventory)
       IN  ReturnWith(p, {r.i}, r.err, loc[p])
    /\ UNCHANGED <<store, op, tx, clock, ncalls, others>>

(***************************************************************************)
(* CreateInventory: a Get and, unless denied, a Put; no transaction.       *)
(***************************************************************************)
\* CreateDenied with the test of err the wrong way round.
CreateDeniedErrInverted(err, i, userID) ==
    err # Nil /\ ~(IsAdmin(userID) \/ i.Creator = userID)

\* "This is an existing Inventory, only admins or original creator can update it."
CreateDenied(err, i, userID) ==
    err = Nil /\ ~(IsAdmin(userID) \/ i.Creator = userID)

\* CreateInventoryRecord without the test of i.Creator.
CreateInventoryRecordAlwaysOwns(i, fileID, personality, userID, now) ==
    [i EXCEPT !.FileID = fileID, !.FileType = FileTypeMPEG4GIF,
              !.Personality = personality, !.LastUsed = now,
              !.Creator = userID]

\* The assignments to i between the Get and the Put.
CreateInventoryRecord(i, fileID, personality, userID, now) ==
    [i EXCEPT !.FileID = fileID, !.FileType = FileTypeMPEG4GIF,
              !.Personality = personality, !.LastUsed = now,
              !.Creator = IF i.Creator = 0 THEN userID ELSE i.Creator]

CreateInventory_Get(p) ==
    /\ pc[p] = "CreateInventory"
    /\ LET r == NdsGet(store, inventoryKey(op[p].fileID), ZeroInventory)
       IN  IF CreateDenied(r.err, r.i, op[p].userID)
           THEN Return(p, {}, ErrorOnlyAdminCanUpdateInventory)
           ELSE /\ loc' = [loc EXCEPT ![p].i = r.i]
                /\ Goto(p, "CreateInventory_Put")
                /\ UNCHANGED ret
    /\ UNCHANGED <<store, op, tx, clock, ncalls, others>>

CreateInventory_Put(p) ==
    /\ pc[p] = "CreateInventory_Put"
    /\ clock' = clock + 1
    /\ LET i == CreateInventoryRecord(loc[p].i, op[p].fileID, op[p].personality,
                                      op[p].userID, clock')
           key == inventoryKey(op[p].fileID)
       IN  /\ store' = NdsPut(store, key, i)
           /\ tx' = Conflicts(tx, p, {key})
           /\ Return(p, {i}, Nil)
    /\ UNCHANGED <<op, ncalls, others>>

(***************************************************************************)
(* Transactions.                                                           *)
(***************************************************************************)
\* The function of a transaction starts (again): its reads enrol `groups`.
Begin(t, p, groups) ==
    [t EXCEPT ![p] = [active |-> TRUE,
                      attempt |-> IF t[p].active THEN t[p].attempt ELSE 1,
                      groups |-> groups, conflict |-> FALSE]]

\* The end of a transaction whose commit failed: another attempt, or the error.
Retry(p, start, i, reti) ==
    /\ UNCHANGED store
    /\ IF tx[p].attempt < Attempts
       THEN /\ tx' = [tx EXCEPT ![p].attempt = @ + 1, ![p].conflict = FALSE,
                                ![p].groups = {}]
            /\ Goto(p, start)
            /\ loc' = [loc EXCEPT ![p].i = i]
            /\ UNCHANGED ret
       ELSE /\ tx' = [tx EXCEPT ![p] = NoTx]
            /\ Return(p, reti, ErrConcurrentTransaction)

\* The commit of a transaction nothing conflicted with: its writes, in one step.
Commit(p, muts) ==
    /\ store' = ApplyMutations(store, muts)
    /\ tx' = [Conflicts(tx, p, {muts[n].key : n \in DOMAIN muts})
                EXCEPT ![p] = NoTx]

(***************************************************************************)
(* IncrementUsageCounter: one transaction on the key of fileID.            *)
(***************************************************************************)
\* IncrementTolerates without the test for ErrNoSuchEntity.
IncrementToleratesNothing(err) == FALSE

\* "Silently ignore this."
IncrementTolerates(err) == err = ErrNoSuchEntity

\* IncrementUsageCounterEnrols for a Get made with the context of the request.
IncrementUsageCounterEnrolsNothing(key) == {}

\* The entity groups the transaction reads: nds.Get(ctx, key, i) is called
\* with ctx, the context the function of the transaction was handed.
IncrementUsageCounterEnrols(key) == {key}

IncrementUsageCounter_Get(p) ==
    /\ pc[p] = "IncrementUsageCounter"
    /\ LET key == inventoryKey(op[p].fileID)
           r == NdsGet(store, key, ZeroInventory)
       IN  IF r.err # Nil
           THEN \* the function returns; the transaction has nothing to commit
                /\ Return(p, {}, IF IncrementTolerates(r.err) THEN Nil ELSE r.err)
                /\ tx' = [tx EXCEPT ![p] = NoTx]
           ELSE /\ loc' = [loc EXCEPT ![p].i = r.i]
                /\ tx' = Begin(tx, p, IncrementUsageCounterEnrols(key))
                /\ Goto(p, "IncrementUsageCounter_Commit")
                /\ UNCHANGED ret
    /\ UNCHANGED <<store, op, clock, ncalls, others>>

IncrementUsageCounter_Commit(p) ==
    /\ pc[p] = "IncrementUsageCounter_Commit"
    /\ clock' = clock + 1
    /\ LET i == [loc[p].i EXCEPT !.UsageCount = @ + 1, !.LastUsed = clock']
           key == inventoryKey(op[p].fileID)
       IN  IF tx[p].conflict
           THEN Retry(p, "IncrementUsageCounter", ZeroInventory, {})
           ELSE /\ Commit(p, <<[kind |-> "put", key |-> key, i |-> i]>>)
                /\ Return(p, {}, Nil)
    /\ UNCHANGED <<op, ncalls, others>>

(***************************************************************************)
(* ReplaceFileID: one cross-group transaction on the two keys.             *)
(***************************************************************************)
\* ReplaceFileIDMutations with the Put left out of the transaction.
ReplaceFileIDMutationsDeleteOnly(oldFileID, newFileID, i) ==
    <<[kind |-> "delete", key |-> inventoryKey(oldFileID), i |-> i]>>

\* The writes of the transaction, in the order the function makes them.
ReplaceFileIDMutations(oldFileID, newFileID, i) ==
    <<[kind |-> "delete", key |-> inventoryKey(oldFileID), i |-> i],
      [kind |-> "put", key |-> inventoryKey(newFileID), i |-> i]>>

\* ReplaceFileIDRecord without the assignment.
ReplaceFileIDRecordKeepsID(i, newFileID) == i

\* i.FileID = newFileID
ReplaceFileIDRecord(i, newFileID) == [i EXCEPT !.FileID = newFileID]

\* ReplaceFileIDGetError ignoring a missing entity, as IncrementUsageCounter does.
ReplaceFileIDGetErrorIgnoresMissing(err) ==
    IF err = ErrNoSuchEntity THEN Nil ELSE err

\* What the function of the transaction returns when its Get returned err:
\* "if err := nds.Get(ctx, oldKey, i); err != nil { return err }"
ReplaceFileIDGetError(err) == err

\* i is declared outside the function of the transaction: an attempt that
\* finds no entity returns what the attempt before left in it.
ReplaceFileID_Get(p) ==
    /\ pc[p] = "ReplaceFileID"
    /\ LET oldKey == inventoryKey(op[p].fileID)
           r == NdsGet(store, oldKey, loc[p].i)
       IN  IF r.err # Nil
           THEN /\ Return(p, {r.i}, ReplaceFileIDGetError(r.err))
                /\ tx' = [tx EXCEPT ![p] = NoTx]
           ELSE /\ loc' = [loc EXCEPT ![p].i = ReplaceFileIDRecord(r.i, op[p].newFileID)]
                /\ tx' = Begin(tx, p, {oldKey, inventoryKey(op[p].newFileID)})
                /\ Goto(p, "ReplaceFileID_Commit")
                /\ UNCHANGED ret
    /\ UNCHANGED <<store, op, clock, ncalls, others>>

ReplaceFileID_Commit(p) ==
    /\ pc[p] = "ReplaceFileID_Commit"
    /\ IF tx[p].conflict
       THEN Retry(p, "ReplaceFileID", loc[p].i, {loc[p].i})
       ELSE /\ Commit(p, ReplaceFileIDMutations(op[p].fileID, op[p].newFileID,
                                                loc[p].i))
            /\ Return(p, {loc[p].i}, Nil)
    /\ UNCHANGED <<op, clock, ncalls, others>>

(***************************************************************************)
(* UpdateFileMetadata: the fetch, then a Get, a Delete when the file ID    *)
(* changed, and a Put.  The function handed to RunInTransaction receives   *)
(* the transaction's context as tc and calls nds with ctx, the context of  *)
(* the request: its Get, Delete and Put are outside the transaction, which *)
(* has nothing to commit.                                                  *)
(***************************************************************************)
UpdateFileMetadata_Fetch(p) ==
    /\ pc[p] = "UpdateFileMetadata"
    /\ \E f \in FetchResults, gcs \in {Nil, ErrInfra} :
         IF f.err # Nil THEN Return(p, {}, f.err)
         ELSE IF gcs # Nil THEN Return(p, {}, gcs)    \* utils.StoreFileToGCS
         ELSE /\ loc' = [loc EXCEPT ![p].newFileID = f.fileID,
                                    ![p].sum = Md5Sum(f.b), ![p].size = Len(f.b)]
              /\ Goto(p, "UpdateFileMetadata_Get")
              /\ UNCHANGED ret
    /\ UNCHANGED <<store, op, tx, clock, ncalls, others>>

\* UpdateFileMetadataRecord without the assignment to i.FileID.
UpdateFileMetadataRecordKeepsID(i, newFileID, sum, size) ==
    [i EXCEPT !.MD5Sum = sum, !.FileSize = size]

\* The assignments to i between the Get and the Delete or the Put.
UpdateFileMetadataRecord(i, newFileID, sum, size) ==
    [i EXCEPT !.FileID = newFileID, !.MD5Sum = sum, !.FileSize = size]

UpdateFileMetadata_Get(p) ==
    /\ pc[p] = "UpdateFileMetadata_Get"
    /\ LET r == NdsGet(store, inventoryKey(op[p].fileID), ZeroInventory)
       IN  IF r.err # Nil
           THEN Return(p, {}, IF r.err = ErrNoSuchEntity THEN Nil ELSE r.err)
           ELSE /\ loc' = [loc EXCEPT ![p].i =
                              UpdateFileMetadataRecord(r.i, loc[p].newFileID,
                                                       loc[p].sum, loc[p].size)]
                /\ Goto(p, IF op[p].fileID # loc[p].newFileID
                           THEN "UpdateFileMetadata_Delete"
                           ELSE "UpdateFileMetadata_Put")
                /\ UNCHANGED ret
    /\ UNCHANGED <<store, op, tx, clock, ncalls, others>>

UpdateFileMetadata_Delete(p) ==
    /\ pc[p] = "UpdateFileMetadata_Delete"
    /\ LET oldKey == inventoryKey(op[p].fileID)
       IN  /\ store' = NdsDelete(store, oldKey)
           /\ tx' = Conflicts(tx, p, {oldKey})
    /\ Goto(p, "UpdateFileMetadata_Put")
    /\ UNCHANGED <<op, loc, ret, clock, ncalls, others>>

UpdateFileMetadata_Put(p) ==
    /\ pc[p] = "UpdateFileMetadata_Put"
    /\ LET key == inventoryKey(loc[p].newFileID)
       IN  /\ store' = NdsPut(store, key, loc[p].i)
           /\ tx' = Conflicts(tx, p, {key})
    /\ Return(p, {}, Nil)
    /\ UNCHANGED <<op, clock, ncalls, others>>

(***************************************************************************)
(* The Knowledge Graph lookup and its memcache entries.  A string is the   *)
(* sequence of its characters.  An item of memcache leaves only when its   *)
(* Expiration has passed, and memcache.Set stores it.                      *)
(***************************************************************************)
MaxKGCalls == 3

Queries == {"q1", "q2"}

\* The @id of the entities the service may rank first.
EntityIDs ==
    { <<"k", "g", ":", "/", "m", "/", "1">>,
      <<"k", "g", ":", "/", "g", "/", "2">>,
      <<"/", "m", "/", "3">> }

\* What sendKGEntityQuery returns: the first result, or none, or an error.
\* result is a set: empty for the nil map.
SendKGEntityQueryResults ==
    [result : {{}} \cup {{[id |-> e]} : e \in EntityIDs}, err : {Nil}]
    \cup [result : {{}}, err : {ErrInfra}]

\* strings.TrimPrefix(s, prefix)
TrimPrefix(s, prefix) ==
    IF Len(s) >= Len(prefix) /\ SubSeq(s, 1, Len(prefix)) = prefix
    THEN SubSeq(s, Len(prefix) + 1, Len(s))
    ELSE s

\* tryFindKGEntityInternal, on what sendKGEntityQuery returned
tryFindKGEntityInternal(r) ==
    IF r.err # Nil THEN [s |-> <<>>, err |-> r.err]
    ELSE IF r.result = {} THEN [s |-> <<>>, err |-> Nil]
    ELSE [s |-> TrimPrefix((CHOOSE m \in r.result : TRUE).id, <<"k", "g", ":">>),
          err |-> Nil]

\* getKGMemcache taking an empty value for no item.
getKGMemcacheNoEmptyValue(c, query) == c[query] \ {<<>>}

\* getKGMemcache: a pointer to the item's value, a set: empty for nil.
getKGMemcache(c, query) == c[query]

\* setKGMemcache calling memcache.Add, which leaves an item that is there.
setKGMemcacheAdd(c, query, result) ==
    IF c[query] = {} THEN [c EXCEPT ![query] = {result}] ELSE c

\* setKGMemcache: memcache.Set, which replaces an item that is there.
setKGMemcache(c, query, result) == [c EXCEPT ![query] = {result}]

\* json.MarshalIndent(result, "", "    ")
MarshalIndent(result) ==
    IF result = {} THEN <<"n", "u", "l", "l">>
    ELSE <<"{", "\n", " ", " ", " ", " ", "\"", "@", "i", "d", "\"", ":", " ", "\"">>
         \o (CHOOSE m \in result : TRUE).id \o <<"\"", "\n", "}">>

NoKG == [name |-> "none", query |-> "", result |-> <<>>, err |-> Nil,
         fromCache |-> FALSE, ret |-> [s |-> <<>>, err |-> Nil]]

\* What a step of the Knowledge Graph functions leaves alone.
kgOthers == <<store, pc, op, loc, ret, tx, clock, lst>>

KGReturn(p, l, s, err) ==
    /\ kg' = [kg EXCEPT ![p] = [l EXCEPT !.ret = [s |-> s, err |-> err]]]
    /\ kgpc' = [kgpc EXCEPT ![p] = "done"]

KGCall(p) ==
    /\ kgpc[p] = "done"
    /\ ncalls < MaxKGCalls
    /\ ncalls' = ncalls + 1
    /\ \E name \in {"TryFindKGEntity", "GetKGQueryResult"}, query \in Queries :
          /\ kg' = [kg EXCEPT ![p] = [NoKG EXCEPT !.name = name, !.query = query]]
          /\ kgpc' = [kgpc EXCEPT ![p] = name]
    /\ UNCHANGED <<cache, backendCalls, kgOthers>>

TryFindKGEntity_Get(p) ==
    /\ kgpc[p] = "TryFindKGEntity"
    /\ LET resultFromMemcache == getKGMemcache(cache, kg[p].query)
       IN  IF resultFromMemcache # {}
           THEN KGReturn(p, [kg[p] EXCEPT !.fromCache = TRUE],
                         CHOOSE s \in resultFromMemcache : TRUE, Nil)
           ELSE /\ kgpc' = [kgpc EXCEPT ![p] = "tryFindKGEntityInternal"]
                /\ UNCHANGED kg
    /\ UNCHANGED <<cache, backendCalls, ncalls, kgOthers>>

\* AfterLookup without the return on an error.
AfterLookupAlwaysSet(err) == "setKGMemcache"

\* "Don't fail the query, just log and return empty result."
AfterLookup(err) == IF err # Nil THEN "return" ELSE "setKGMemcache"

TryFindKGEntity_Lookup(p) ==
    /\ kgpc[p] = "tryFindKGEntityInternal"
    /\ backendCalls' = [backendCalls EXCEPT ![kg[p].query] = @ + 1]
    /\ \E r \in SendKGEntityQueryResults :
         LET t == tryFindKGEntityInternal(r)
             l == [kg[p] EXCEPT !.result = t.s, !.err = t.err]
         IN  IF AfterLookup(t.err) = "return"
             THEN KGReturn(p, l, <<>>, Nil)
             ELSE /\ kg' = [kg EXCEPT ![p] = l]
                  /\ kgpc' = [kgpc EXCEPT ![p] = "setKGMemcache"]
    /\ UNCHANGED <<cache, ncalls, kgOthers>>

TryFindKGEntity_Set(p) ==
    /\ kgpc[p] = "setKGMemcache"
    /\ cache' = setKGMemcache(cache, kg[p].query, kg[p].result)
    /\ KGReturn(p, kg[p], kg[p].result, Nil)
    /\ UNCHANGED <<backendCalls, ncalls, kgOthers>>

\* "This bypasses memcache"
GetKGQueryResult_Step(p) ==
    /\ kgpc[p] = "GetKGQueryResult"
    /\ backendCalls' = [backendCalls EXCEPT ![kg[p].query] = @ + 1]
    /\ \E r \in SendKGEntityQueryResults :
         IF r.err # Nil
         THEN KGReturn(p, [kg[p] EXCEPT !.err = r.err], <<>>, r.err)
         ELSE KGReturn(p, kg[p], MarshalIndent(r.result), Nil)
    /\ UNCHANGED <<cache, ncalls, kgOthers>>

\* The Expiration of an item, 4 * time.Hour after it was set, has passed.
Expire(query) ==
    /\ cache[query] # {}
    /\ cache' = [cache EXCEPT ![query] = {}]
    /\ UNCHANGED <<kgpc, kg, backendCalls, ncalls, kgOthers>>

InitKG ==
    /\ cache = [q \in Queries |-> {}]
    /\ kgpc = [p \in Procs |-> "done"]
    /\ kg = [p \in Procs |-> NoKG]
    /\ backendCalls = [q \in Queries |-> 0]

NextKG ==
    \/ \E p \in Procs : KGCall(p)
    \/ \E p \in Procs : TryFindKGEntity_Get(p)
    \/ \E p \in Procs : TryFindKGEntity_Lookup(p)
    \/ \E p \in Procs : TryFindKGEntity_Set(p)
    \/ \E p \in Procs : GetKGQueryResult_Step(p)
    \/ \E query \in Queries : Expire(query)

(***************************************************************************)
(* FindInventories.  The datastore holds the entities 1 .. n, in the order *)
(* of their keys; every one has personality p1, the even ones p2 as well,  *)
(* and entity k was used k % (MaxUsage + 1) times.                         *)
(***************************************************************************)
maxItems == 50

MaxRecords == 102
MaxUsage == 6
MaxCursorLen == 2
MaxPages == 3

CursorChars == {"5", "0", "x", "-"}

RECURSIVE StringsUpTo(_)
StringsUpTo(len) ==
    IF len = 0 THEN {<<>>}
    ELSE LET shorter == StringsUpTo(len - 1)
         IN  shorter \cup {Append(s, c) : s \in shorter, c \in CursorChars}

Filters == {<<>>, <<"p2">>, <<"p2", "p1">>}

ListPersonality(k) == IF k % 2 = 0 THEN <<"p1", "p2">> ELSE <<"p1">>

ListUsageCount(k) == k % (MaxUsage + 1)

ListEntity(k) ==
    [ZeroInventory EXCEPT !.FileID = k, !.FileType = FileTypeMPEG4GIF,
                          !.Personality = ListPersonality(k),
                          !.Creator = 1,
                          !.UsageCount = ListUsageCount(k)]

Decimals == <<"0", "1", "2", "3", "4", "5", "6", "7", "8", "9">>
ErrSyntax == "strconv.Atoi: invalid syntax"

IsDecimal(c) == \E d \in DOMAIN Decimals : Decimals[d] = c

RECURSIVE ParseDecimals(_, _)
ParseDecimals(s, acc) ==
    IF s = <<>> THEN acc
    ELSE ParseDecimals(Tail(s),
                       acc * 10 + (CHOOSE d \in DOMAIN Decimals : Decimals[d] = Head(s)) - 1)

\* strconv.Atoi(s): an optional sign and decimals, at least one; 0 and an
\* error for anything else.
Atoi(s) ==
    LET signed == s # <<>> /\ Head(s) \in {"+", "-"}
        body == IF signed THEN Tail(s) ELSE s
    IN  IF body = <<>> \/ \E n \in DOMAIN body : ~IsDecimal(body[n])
        THEN [n |-> 0, err |-> ErrSyntax]
        ELSE [n |-> IF signed /\ Head(s) = "-" THEN 0 - ParseDecimals(body, 0)
                    ELSE ParseDecimals(body, 0),
              err |-> Nil]

RECURSIVE Itoa(_)
\* strconv.Itoa(n)
Itoa(n) ==
    IF n < 0 THEN <<"-">> \o Itoa(0 - n)
    ELSE IF n < 10 THEN <<Decimals[n + 1]>>
    ELSE Append(Itoa(n \div 10), Decimals[(n % 10) + 1])

\* Whether every personality of the filters is one of the entity's.
MatchesAll(personality, personalities) ==
    \A n \in DOMAIN personalities :
        \E m \in DOMAIN personality : personality[m] = personalities[n]

RECURSIVE ByUsage(_, _)
\* The keys `keys`, which are in key order, by descending UsageCount from u.
ByUsage(keys, u) ==
    IF u < 0 THEN <<>>
    ELSE SelectSeq(keys, LAMBDA k : ListUsageCount(k) = u)
         \o ByUsage(keys, u - 1)

\* The keys of the n entities that the query's filters match, in its order.
Ranked(n, personalities) ==
    ByUsage(SelectSeq([k \in 1 .. n |-> k],
                      LAMBDA k : MatchesAll(ListPersonality(k), personalities)),
            MaxUsage)

\* q.Offset(offset).Limit(limit) ... GetAll: a negative offset is an error.
RunQuery(ranked, offset, limit) ==
    IF offset < 0 THEN [keys |-> <<>>, err |-> ErrInfra]
    ELSE [keys |-> SubSeq(ranked, offset + 1,
                          IF Len(ranked) < offset + limit THEN Len(ranked)
                          ELSE offset + limit),
          err |-> Nil]

\* The offset of the query: q.Offset is called when Atoi returned an error.
QueryOffset(a) == IF a.err # Nil THEN a.n ELSE 0

\* NewCursor testing for a page that is not empty.
NewCursorWhenNotEmpty(len, offset) ==
    IF len > 0 THEN Itoa(offset + maxItems) ELSE <<>>

\* newCursor, from len(keys) and offset
NewCursor(len, offset) ==
    IF len = maxItems THEN Itoa(offset + maxItems) ELSE <<>>

\* FindInventories, `ranked` being the keys its filters match in the order
\* of the query; `fail` is the datastore call that fails, if one does.
\* inventories holds the FileIDs of the page.
FindInventories(ranked, lastCursor, fail) ==
    LET a == Atoi(lastCursor)
        offset == a.n
        q == RunQuery(ranked, QueryOffset(a), maxItems)
    IN  IF fail = "GetAll" \/ q.err # Nil
        THEN [inventories |-> <<>>, newCursor |-> <<>>, err |-> ErrInfra]
        ELSE IF Len(q.keys) = 0
        THEN [inventories |-> <<>>, newCursor |-> <<>>, err |-> Nil]
        ELSE IF fail = "GetMulti"
        THEN [inventories |-> <<>>, newCursor |-> <<>>, err |-> ErrInfra]
        ELSE [inventories |-> [m \in DOMAIN q.keys |-> ListEntity(q.keys[m]).FileID],
              newCursor |-> NewCursor(Len(q.keys), offset),
              err |-> Nil]

\* What a step of FindInventories or its caller leaves alone.
listOthers == <<store, pc, op, loc, ret, tx, clock, ncalls,
                cache, kgpc, kg, backendCalls>>

FindInventories_Step ==
    /\ lst.pc = "call"
    /\ LET ranked == Ranked(lst.n, lst.personalities)
       IN  \E fail \in {"none", "GetAll", "GetMulti"} :
             LET r == FindInventories(ranked, lst.lastCursor, fail)
             IN  lst' = [lst EXCEPT !.pc = "got", !.inventories = r.inventories,
                                    !.newCursor = r.newCursor, !.err = r.err,
                                    !.seen = @ \o r.inventories]
    /\ UNCHANGED listOthers

\* The caller asks for the next page with the cursor it was given.
NextPage ==
    /\ lst.pc = "got"
    /\ lst.err = Nil
    /\ lst.newCursor # <<>>
    /\ lst.pages < MaxPages
    /\ lst' = [lst EXCEPT !.pc = "call", !.lastCursor = lst.newCursor,
                          !.inventories = <<>>, !.newCursor = <<>>,
                          !.pages = @ + 1]
    /\ UNCHANGED listOthers

\* The caller keeps the lastCursor of its first call, in first, and the
\* pages it was given, one after the other, in seen.
InitLists ==
    { [l EXCEPT !.first = l.lastCursor] :
        l \in [n : 0 .. MaxRecords, personalities : Filters,
               lastCursor : StringsUpTo(MaxCursorLen), pc : {"call"},
               inventories : {<<>>}, newCursor : {<<>>}, err : {Nil},
               pages : {1}, first : {<<>>}, seen : {<<>>}] }

InitList == lst = [n |-> 0, personalities |-> <<>>, lastCursor |-> <<>>,
                   pc |-> "got", inventories |-> <<>>, newCursor |-> <<>>,
                   err |-> Nil, pages |-> 1, first |-> <<>>, seen |-> <<>>]

NextList == FindInventories_Step \/ NextPage

(***************************************************************************)
(* The inventory store under concurrent callers.  It starts empty, or with *)
(* one file registered, or with two files registered and their metadata    *)
(* refreshed from the same bytes.                                          *)
(***************************************************************************)
Registered(fileID, userID, now) ==
    CreateInventoryRecord(ZeroInventory, fileID, <<"p1">>, userID, now)

Refreshed(i, b) == [i EXCEPT !.MD5Sum = Md5Sum(b), !.FileSize = Len(b)]

InitStores ==
    { <<>>,
      NdsPut(<<>>, "f1", Registered("f1", 1, 1)),
      NdsPut(NdsPut(<<>>, "f1", Refreshed(Registered("f1", 1, 1), <<"a">>)),
             "f2", Refreshed(Registered("f2", 2, 2), <<"a">>)) }

InitStoreWith(s) ==
    /\ store = s
    /\ pc = [p \in Procs |-> "done"]
    /\ op = [p \in Procs |-> NoOp]
    /\ loc = [p \in Procs |-> NoLoc]
    /\ ret = [p \in Procs |-> NoRet]
    /\ tx = [p \in Procs |-> NoTx]
    /\ clock = 2
    /\ ncalls = 0

InitStore == \E s \in InitStores : InitStoreWith(s)

Init == InitStore /\ InitKG /\ InitList

Next ==
    \/ \E p \in Procs : Call(p)
    \/ \E p \in Procs : GetInventory_Step(p)
    \/ \E p \in Procs : GetInventoryByFile_Count(p)
    \/ \E p \in Procs : GetInventoryByFile_Query(p)
    \/ \E p \in Procs : GetInventoryByFile_Get(p)
    \/ \E p \in Procs : CreateInventory_Get(p)
    \/ \E p \in Procs : CreateInventory_Put(p)
    \/ \E p \in Procs : IncrementUsageCounter_Get(p)
    \/ \E p \in Procs : IncrementUsageCounter_Commit(p)
    \/ \E p \in Procs : ReplaceFileID_Get(p)
    \/ \E p \in Procs : ReplaceFileID_Commit(p)
    \/ \E p \in Procs : UpdateFileMetadata_Fetch(p)
    \/ \E p \in Procs : UpdateFileMetadata_Get(p)
    \/ \E p \in Procs : UpdateFileMetadata_Delete(p)
    \/ \E p \in Procs : UpdateFileMetadata_Put(p)

Spec == Init /\ [][Next]_vars

InitKGOnly == InitStoreWith(<<>>) /\ InitKG /\ InitList

SpecKG == InitKGOnly /\ [][NextKG]_vars

InitListOnly == InitStoreWith(<<>>) /\ InitKG /\ lst \in InitLists

SpecList == InitListOnly /\ [][NextList]_vars

(***************************************************************************)
(* Properties of the inventory store.                                      *)
(***************************************************************************)
\* The step is one of caller p, taken from the place `label`.
StepFrom(p, label) == pc[p] = label /\ pc'[p] # label

\* The datastore with the entity at oldKey moved to newKey, FileID set to it.
Moved(s, oldKey, newKey) ==
    NdsPut(NdsDelete(s, oldKey), newKey, [s[oldKey] EXCEPT !.FileID = newKey])

\* C1: ReplaceFileID is all-or-nothing to every other caller. A step of a
\* ReplaceFileID(oldFileID, newFileID) either leaves the datastore as it is
\* or, in that one step, removes the entity at oldFileID and inserts it at
\* newFileID; and only a call that returns no error changes the datastore.
\* No state has the delete without the insert, or the insert without the
\* delete.
ReplaceFileIDIsAtomic ==
    [][\A p \in Procs :
         (StepFrom(p, "ReplaceFileID") \/ StepFrom(p, "ReplaceFileID_Commit")) =>
            \/ store' = store
            \/ /\ op[p].fileID \in DOMAIN store
               /\ store' = Moved(store, op[p].fileID, op[p].newFileID)
               /\ pc'[p] = "done"
               /\ ret'[p].err = Nil]_vars

\* A ReplaceFileID to another file ID has returned no error while the other
\* caller's GetInventory of the new file ID found the entity.
ReplaceFileIDIsAtomicWitness ==
    \E p \in Procs, q \in Procs :
        /\ p # q
        /\ pc[p] = "done" /\ op[p].name = "ReplaceFileID" /\ ret[p].err = Nil
        /\ op[p].fileID # op[p].newFileID
        /\ pc[q] = "done" /\ op[q].name = "GetInventory" /\ ret[q].err = Nil
        /\ op[q].fileID = op[p].newFileID
        /\ \E i \in ret[q].i : i.FileID = op[p].newFileID /\ i \in ret[p].i
        /\ op[p].newFileID \in DOMAIN store
        /\ op[p].fileID \notin DOMAIN store

\* The commit of a ReplaceFileID that returns no error.
ReplaceFileIDCommits(p) ==
    /\ StepFrom(p, "ReplaceFileID_Commit")
    /\ pc'[p] = "done"
    /\ ret'[p].err = Nil

\* C2, as claimed: after a ReplaceFileID(old, new) that returned no error,
\* GetInventory(old) finds no entity and GetInventory(new) gives the entity
\* that was at old, with FileID = new.
ReplaceFileIDThenGetAsClaimed ==
    [][\A p \in Procs :
         ReplaceFileIDCommits(p) =>
            /\ GetInventory(store', op[p].fileID).err = ErrNoSuchEntity
            /\ GetInventory(store', op[p].newFileID) =
                 [i |-> [store[op[p].fileID] EXCEPT !.FileID = op[p].newFileID],
                  err |-> Nil]]_vars

\* C2, amended: after a ReplaceFileID(old, new) that returned no error,
\* GetInventory(new) gives the entity that was at old, every field as it was
\* but FileID = new, and, when old # new, GetInventory(old) finds no entity.
ReplaceFileIDThenGet ==
    [][\A p \in Procs :
         ReplaceFileIDCommits(p) =>
            /\ op[p].fileID # op[p].newFileID =>
                 GetInventory(store', op[p].fileID).err = ErrNoSuchEntity
            /\ GetInventory(store', op[p].newFileID) =
                 [i |-> [store[op[p].fileID] EXCEPT !.FileID = op[p].newFileID],
                  err |-> Nil]
            /\ ret'[p].i = {GetInventory(store', op[p].newFileID).i}]_vars

\* A used entity has been moved to another file ID, its count with it.
ReplaceFileIDThenGetWitness ==
    \E p \in Procs :
        /\ pc[p] = "done" /\ op[p].name = "ReplaceFileID" /\ ret[p].err = Nil
        /\ op[p].fileID # op[p].newFileID
        /\ GetInventory(store, op[p].fileID).err = ErrNoSuchEntity
        /\ GetInventory(store, op[p].newFileID).err = Nil
        /\ GetInventory(store, op[p].newFileID).i.FileID = op[p].newFileID
        /\ GetInventory(store, op[p].newFileID).i.UsageCount > 0

\* C3: a CreateInventory by a user who is neither an admin nor the creator of
\* the entity stored at fileID returns ErrorOnlyAdminCanUpdateInventory and
\* no Inventory, at its first step, and the datastore is left as it was.
CreateDeniedLeavesRecord ==
    [][\A p \in Procs :
         LET key == inventoryKey(op[p].fileID)
         IN  ( /\ StepFrom(p, "CreateInventory")
               /\ key \in DOMAIN store
               /\ store[key].Creator # op[p].userID
               /\ op[p].userID \notin Admins ) =>
                    /\ pc'[p] = "done"
                    /\ ret'[p] = [i |-> {}, err |-> ErrorOnlyAdminCanUpdateInventory]
                    /\ store' = store]_vars

\* A user who is no admin was denied the update of another user's entity.
CreateDeniedLeavesRecordWitness ==
    \E p \in Procs :
        /\ pc[p] = "done" /\ op[p].name = "CreateInventory"
        /\ ret[p].err = ErrorOnlyAdminCanUpdateInventory
        /\ op[p].userID \notin Admins
        /\ op[p].fileID \in DOMAIN store
        /\ store[op[p].fileID].Creator \notin {0, op[p].userID}

\* The Put of a CreateInventory, which then returns no error.
CreateInventoryPuts(p) ==
    /\ StepFrom(p, "CreateInventory_Put")
    /\ pc'[p] = "done"
    /\ ret'[p].err = Nil

\* C4, as claimed: after every CreateInventory(fileID, personality, userID)
\* that returned no error, GetInventory(fileID) gives an entity with
\* Creator = userID and Personality = personality.
CreateThenGetAsClaimed ==
    [][\A p \in Procs :
         CreateInventoryPuts(p) =>
            LET g == GetInventory(store', op[p].fileID)
            IN  /\ g.err = Nil
                /\ g.i.Creator = op[p].userID
                /\ g.i.Personality = op[p].personality]_vars

\* C4, amended: after every CreateInventory(fileID, personality, userID) that
\* returned no error, GetInventory(fileID) gives an entity with Personality =
\* personality, and with Creator = userID unless userID is an admin and the
\* entity CreateInventory read had a creator, which is then still its Creator.
CreateThenGet ==
    [][\A p \in Procs :
         CreateInventoryPuts(p) =>
            LET g == GetInventory(store', op[p].fileID)
            IN  /\ g.err = Nil
                /\ g.i.FileID = op[p].fileID
                /\ g.i.Personality = op[p].personality
                /\ g.i.Creator =
                      IF IsAdmin(op[p].userID) /\ loc[p].i.Creator # 0
                      THEN loc[p].i.Creator
                      ELSE op[p].userID
                /\ ret'[p].i = {g.i}]_vars

\* An admin has updated the personalities of an entity another user created.
CreateThenGetWitness ==
    \E p \in Procs :
        /\ pc[p] = "done" /\ op[p].name = "CreateInventory" /\ ret[p].err = Nil
        /\ IsAdmin(op[p].userID)
        /\ \E i \in ret[p].i :
              /\ i.Creator \notin {0, op[p].userID}
              /\ i.Personality = op[p].personality
              /\ GetInventory(store, op[p].fileID) = [i |-> i, err |-> Nil]

\* C5: an IncrementUsageCounter of a file ID with no entity returns no error,
\* at its first step, and leaves the datastore as it was: no entity is
\* created and none is changed.
IncrementOfMissingIsNoOp ==
    [][\A p \in Procs :
         ( /\ StepFrom(p, "IncrementUsageCounter")
           /\ inventoryKey(op[p].fileID) \notin DOMAIN store ) =>
                /\ pc'[p] = "done"
                /\ ret'[p] = [i |-> {}, err |-> Nil]
                /\ store' = store]_vars

\* Both callers have incremented the usage of a file of the empty datastore.
IncrementOfMissingIsNoOpWitness ==
    /\ store = <<>>
    /\ ncalls = 2
    /\ \A p \in Procs :
        /\ pc[p] = "done" /\ op[p].name = "IncrementUsageCounter"
        /\ op[p].fileID = "f1"
        /\ ret[p] = [i |-> {}, err |-> Nil]

\* The keys of the entities whose digest is s.
WithDigest(s, sum) == {k \in DOMAIN s : s[k].MD5Sum = sum}

\* C8: when the digest query of GetInventoryByFile succeeds, more than one
\* entity with the digest of the fetched bytes makes it return no Inventory
\* and no error, and so does none; it goes on to Get an entity only when
\* exactly one has the digest, and then that one.
HashConflictIsNoMatch ==
    [][\A p \in Procs :
         StepFrom(p, "GetInventoryByFile_Query") =>
            LET matching == WithDigest(store, loc'[p].sum)
            IN  /\ (loc'[p].err = Nil /\ Cardinality(matching) # 1) =>
                      /\ pc'[p] = "done"
                      /\ ret'[p] = [i |-> {}, err |-> Nil]
                /\ pc'[p] = "GetInventoryByFile_Get" =>
                      /\ Cardinality(matching) = 1
                      /\ loc'[p].keys[1] \in matching
                /\ store' = store]_vars

\* A GetInventoryByFile found two entities with the digest and returned
\* neither of them.
HashConflictIsNoMatchWitness ==
    \E p \in Procs :
        /\ pc[p] = "done" /\ op[p].name = "GetInventoryByFile"
        /\ Len(loc[p].keys) = 2
        /\ Cardinality(WithDigest(store, loc[p].sum)) = 2
        /\ ret[p] = [i |-> {}, err |-> Nil]

\* The commit of an IncrementUsageCounter, which then returns no error.
IncrementUsageCounterCommits(p) ==
    /\ StepFrom(p, "IncrementUsageCounter_Commit")
    /\ pc'[p] = "done"
    /\ ret'[p].err = Nil

\* C11: an IncrementUsageCounter(fileID) that found the entity and returns no
\* error raises, in the one step of its commit, the UsageCount the entity has
\* in the datastore at that moment by exactly 1 (and sets LastUsed), whatever
\* the other callers did since it read the entity; so no increment of
\* concurrent calls is lost and N of them leave UsageCount N higher.
IncrementIsAtomic ==
    [][\A p \in Procs :
         IncrementUsageCounterCommits(p) =>
            LET key == inventoryKey(op[p].fileID)
            IN  /\ key \in DOMAIN store
                /\ store' = [store EXCEPT ![key].UsageCount = @ + 1,
                                          ![key].LastUsed = clock']]_vars

\* The first attempt of a caller's IncrementUsageCounter conflicted with the
\* commit of the other caller's, and its second attempt has read the count
\* the other one wrote.
IncrementIsAtomicWitness ==
    \E p \in Procs, q \in Procs :
        /\ p # q
        /\ pc[p] = "IncrementUsageCounter_Commit" /\ tx[p].attempt = 2
        /\ pc[q] = "done" /\ op[q].name = "IncrementUsageCounter"
        /\ op[q].fileID = op[p].fileID /\ ret[q].err = Nil
        /\ loc[p].i.UsageCount = 1
        /\ store[op[p].fileID].UsageCount = 1

\* The datastore after the whole of UpdateFileMetadata(oldFileID) has acted
\* on the datastore s: the entity at oldFileID, with the new metadata, is at
\* newFileID, and not at oldFileID when that is another file ID.
Refresh(s, oldFileID, newFileID, sum, size) ==
    NdsPut(IF oldFileID # newFileID THEN NdsDelete(s, inventoryKey(oldFileID))
           ELSE s,
           inventoryKey(newFileID),
           [s[inventoryKey(oldFileID)] EXCEPT !.FileID = newFileID,
                                              !.MD5Sum = sum, !.FileSize = size])

\* C12, as claimed: UpdateFileMetadata(oldFileID) reads and writes the
\* datastore as one transaction. Every step it takes after the fetch either
\* leaves the datastore as it is or, in that one step, applies the whole
\* refresh to the entity the datastore holds at oldFileID at that moment: no
\* state has oldFileID deleted without newFileID inserted, and no UsageCount
\* another caller committed since the read is overwritten.
UpdateFileMetadataIsAtomicAsClaimed ==
    [][\A p \in Procs :
         ( \/ StepFrom(p, "UpdateFileMetadata_Get")
           \/ StepFrom(p, "UpdateFileMetadata_Delete")
           \/ StepFrom(p, "UpdateFileMetadata_Put") ) =>
            \/ store' = store
            \/ /\ inventoryKey(op[p].fileID) \in DOMAIN store
               /\ store' = Refresh(store, op[p].fileID, loc[p].newFileID,
                                   loc[p].sum, loc[p].size)]_vars

\* C13: a ReplaceFileID(oldFileID, newFileID) that finds no entity at
\* oldFileID returns ErrNoSuchEntity at that step and leaves the datastore as
\* it was: no entity appears at newFileID, the one that may be there is not
\* changed, and nothing is deleted.
ReplaceFileIDOfMissingFails ==
    [][\A p \in Procs :
         ( /\ StepFrom(p, "ReplaceFileID")
           /\ inventoryKey(op[p].fileID) \notin DOMAIN store ) =>
                /\ pc'[p] = "done"
                /\ ret'[p].err = ErrNoSuchEntity
                /\ store' = store]_vars

\* A ReplaceFileID of a file ID with no entity, onto a file ID with one, has
\* returned ErrNoSuchEntity, and the entity at the new file ID is its own.
ReplaceFileIDOfMissingFailsWitness ==
    \E p \in Procs :
        /\ pc[p] = "done" /\ op[p].name = "ReplaceFileID"
        /\ ret[p].err = ErrNoSuchEntity
        /\ op[p].fileID \notin DOMAIN store
        /\ op[p].newFileID \in DOMAIN store
        /\ store[op[p].newFileID].FileID = op[p].newFileID
        /\ op[p].fileID # op[p].newFileID

\* C14, as claimed: a GetInventoryByFile whose fetch of the file's bytes
\* failed, or whose digest query failed, returns an error and no Inventory
\* at that step; it neither returns "no match" (nil, nil) nor goes on to Get
\* an entity.
FetchFailurePropagatesAsClaimed ==
    [][\A p \in Procs :
         ( /\ StepFrom(p, "GetInventoryByFile_Query")
           /\ (loc'[p].fetchErr # Nil \/ loc'[p].err # Nil) ) =>
                /\ pc'[p] = "done"
                /\ ret'[p].i = {}
                /\ ret'[p].err # Nil]_vars

\* The step is one of caller p that puts at key k the entity of another key.
MovesOnto(p, k) ==
    \/ /\ StepFrom(p, "ReplaceFileID_Commit")
       /\ inventoryKey(op[p].newFileID) = k /\ op[p].fileID # op[p].newFileID
    \/ /\ StepFrom(p, "UpdateFileMetadata_Put")
       /\ inventoryKey(loc[p].newFileID) = k /\ op[p].fileID # loc[p].newFileID

\* C15, as claimed: no step lowers the UsageCount of an entity. A step that
\* leaves an entity at its key leaves its UsageCount as it was or higher, and
\* the commit of a ReplaceFileID gives the entity at the new key at least the
\* UsageCount it had at the old one.
UsageCountIsMonotonicAsClaimed ==
    [][/\ \A k \in DOMAIN store \cap DOMAIN store' :
            (\A p \in Procs : ~MovesOnto(p, k)) =>
                store'[k].UsageCount >= store[k].UsageCount
       /\ \A p \in Procs :
            ReplaceFileIDCommits(p) =>
                store'[inventoryKey(op[p].newFileID)].UsageCount >=
                    store[inventoryKey(op[p].fileID)].UsageCount]_vars

\* C16, as claimed: once the entity at a key has a Creator that is not 0, no
\* step that leaves an entity at the key changes its Creator, whichever
\* function the step belongs to and whatever the callers read before.
CreatorIsImmutableAsClaimed ==
    [][\A k \in DOMAIN store \cap DOMAIN store' :
         ( /\ store[k].Creator # 0
           /\ \A p \in Procs : ~MovesOnto(p, k) ) =>
                store'[k].Creator = store[k].Creator]_vars

\* C18: in every reachable state the FileID of every stored entity is the
\* file ID of the key it is stored under, so no two stored entities have the
\* same FileID.
KeyIsFileID ==
    /\ \A k \in DOMAIN store : inventoryKey(store[k].FileID) = k
    /\ \A k \in DOMAIN store, l \in DOMAIN store :
          store[k].FileID = store[l].FileID => k = l

\* The one call made was an UpdateFileMetadata("f1") that found another file
\* ID for the file: the entity user 1 registered is now at "f2", with its
\* digest, and nothing is at "f1".
KeyIsFileIDWitness ==
    /\ ncalls = 1
    /\ DOMAIN store = {"f2"}
    /\ store["f2"].FileID = "f2" /\ store["f2"].Creator = 1
    /\ store["f2"].MD5Sum # <<>>
    /\ \E p \in Procs :
          /\ pc[p] = "done" /\ op[p].name = "UpdateFileMetadata"
          /\ op[p].fileID = "f1" /\ ret[p].err = Nil

\* C20, as claimed: the commit of a ReplaceFileID(oldFileID, newFileID) that
\* returns no error leaves as many entities in the datastore as there were,
\* and every entity at a key other than oldFileID's and newFileID's, and the
\* entity that was at newFileID's when oldFileID is another file ID, is in
\* the datastore afterwards as it was.
ReplaceFileIDKeepsEveryEntityAsClaimed ==
    [][\A p \in Procs :
         ReplaceFileIDCommits(p) =>
            LET oldKey == inventoryKey(op[p].fileID)
                newKey == inventoryKey(op[p].newFileID)
            IN  /\ Cardinality(DOMAIN store') = Cardinality(DOMAIN store)
                /\ \A k \in DOMAIN store \ {oldKey, newKey} :
                      k \in DOMAIN store' /\ store'[k] = store[k]
                /\ (oldKey # newKey /\ newKey \in DOMAIN store) =>
                      \E k \in DOMAIN store' : store'[k] = store[newKey]]_vars

(***************************************************************************)
(* Properties of the Knowledge Graph lookup.                               *)
(***************************************************************************)
KGStepFrom(p, label) == kgpc[p] = label /\ kgpc'[p] # label

\* C6: a TryFindKGEntity(query) that finds an item for query in memcache,
\* whether its value is an entity's ID or the empty string, returns that
\* value without a call of the service; one that finds none calls the
\* service once and, when the service answered, goes on to set the item to
\* what it returns, the ID or the empty string.
SecondLookupIsFromCache ==
    [][\A p \in Procs :
         LET query == kg[p].query
         IN  /\ (KGStepFrom(p, "TryFindKGEntity") /\ cache[query] # {}) =>
                    /\ kgpc'[p] = "done"
                    /\ cache[query] = {kg'[p].ret.s}
                    /\ kg'[p].ret.err = Nil
                    /\ backendCalls' = backendCalls
                    /\ cache' = cache
             /\ (KGStepFrom(p, "TryFindKGEntity") /\ cache[query] = {}) =>
                    /\ kgpc'[p] = "tryFindKGEntityInternal"
                    /\ backendCalls' = backendCalls
             /\ KGStepFrom(p, "tryFindKGEntityInternal") =>
                    /\ backendCalls' =
                         [backendCalls EXCEPT ![query] = backendCalls[query] + 1]
                    /\ kg'[p].err = Nil => kgpc'[p] = "setKGMemcache"
             /\ KGStepFrom(p, "setKGMemcache") =>
                    /\ kgpc'[p] = "done"
                    /\ cache' = [cache EXCEPT ![query] = {kg'[p].ret.s}]
                    /\ kg'[p].ret = [s |-> kg[p].result, err |-> Nil]
                    /\ backendCalls' = backendCalls]_vars

\* Two calls were made, both TryFindKGEntity("q1"); the service was called
\* once and found nothing, and the second call returned the empty string
\* from memcache.
SecondLookupIsFromCacheWitness ==
    /\ ncalls = 2
    /\ backendCalls = [q \in Queries |-> IF q = "q1" THEN 1 ELSE 0]
    /\ cache["q1"] = {<<>>}
    /\ \A p \in Procs :
          /\ kgpc[p] = "done"
          /\ kg[p].name = "TryFindKGEntity" /\ kg[p].query = "q1"
          /\ kg[p].ret = [s |-> <<>>, err |-> Nil]
    /\ \E p \in Procs : kg[p].fromCache
    /\ \E p \in Procs : ~kg[p].fromCache /\ kg[p].err = Nil

\* C7: a TryFindKGEntity whose call of the service fails returns the empty
\* string, and no error, at that step; it sets no item of memcache, so an
\* item that was absent stays absent and the next TryFindKGEntity of the
\* query calls the service again.
FailedLookupIsNotCached ==
    [][\A p \in Procs :
         (KGStepFrom(p, "tryFindKGEntityInternal") /\ kg'[p].err # Nil) =>
            /\ kgpc'[p] = "done"
            /\ kg'[p].ret = [s |-> <<>>, err |-> Nil]
            /\ cache' = cache]_vars

\* Two calls were made, both TryFindKGEntity("q1"): the service was called
\* twice and failed both times, and memcache holds no item.
FailedLookupIsNotCachedWitness ==
    /\ ncalls = 2
    /\ backendCalls["q1"] = 2
    /\ cache = [q \in Queries |-> {}]
    /\ kgpc[1] = "done" /\ kgpc[2] = "done"
    /\ kg[1].name = "TryFindKGEntity" /\ kg[1].query = "q1"
    /\ kg[1].err = ErrInfra /\ kg[1].ret = [s |-> <<>>, err |-> Nil]
    /\ kg[2] = kg[1]

\* C17, as claimed: once memcache holds an item for a query, no step
\* changes its value; the item stays as it is until it leaves.
CacheEntryNeverReplacedAsClaimed ==
    [][\A q \in Queries :
         cache[q] # {} => cache'[q] \in {cache[q], {}}]_vars

\* C17, amended: the item of a query changes only when it leaves memcache,
\* which is no step of a caller, or at the setKGMemcache of a
\* TryFindKGEntity of that query that found no item and whose call of the
\* service succeeded; and that step sets the item to what the service
\* answered whether or not an item is there by then, so that of two
\* concurrent misses the later Set replaces the value of the earlier.  No step
\* of GetKGQueryResult and no other step of TryFindKGEntity changes an item.
CacheEntryChanges ==
    [][/\ \A q \in Queries :
            \/ cache'[q] = cache[q]
            \/ /\ cache[q] # {} /\ cache'[q] = {}
               /\ kgpc' = kgpc /\ kg' = kg /\ backendCalls' = backendCalls
            \/ \E p \in Procs :
                  /\ KGStepFrom(p, "setKGMemcache")
                  /\ kg[p].name = "TryFindKGEntity" /\ kg[p].query = q
                  /\ kg[p].err = Nil /\ ~kg[p].fromCache
       /\ \A p \in Procs :
            KGStepFrom(p, "setKGMemcache") =>
                /\ cache'[kg[p].query] = {kg[p].result}
                /\ kg'[p].ret = [s |-> kg[p].result, err |-> Nil]]_vars

\* Two calls were made, both TryFindKGEntity("q1") and both misses; the
\* service gave them different answers, both set the item, and memcache
\* holds the answer of one of them.
CacheEntryChangesWitness ==
    /\ ncalls = 2
    /\ backendCalls["q1"] = 2
    /\ \A p \in Procs :
          /\ kgpc[p] = "done"
          /\ kg[p].name = "TryFindKGEntity" /\ kg[p].query = "q1"
          /\ kg[p].err = Nil /\ ~kg[p].fromCache
          /\ kg[p].ret.s = kg[p].result
    /\ kg[1].result # kg[2].result
    /\ kg[1].result # <<>>
    /\ cache["q1"] = {kg[2].result}

(***************************************************************************)
(* Properties of FindInventories.                                          *)
(***************************************************************************)
\* The decimal numeral s, as strconv.Itoa writes one, of the number v.
IsDecimalOf(s, v) ==
    /\ s # <<>>
    /\ Atoi(s) = [n |-> v, err |-> Nil]
    /\ Head(s) # "+"
    /\ LET digits == IF Head(s) = "-" THEN Tail(s) ELSE s
       IN  Len(digits) > 1 => Head(digits) # "0"
    /\ s # <<"-", "0">>

\* C9: a FindInventories that returns maxItems entities returns as newCursor
\* the decimal numeral of maxItems more than the number its lastCursor
\* stands for (0 when it stands for none); one that returns fewer, or none,
\* returns the empty newCursor.
FullPageGivesCursor ==
    (lst.pc = "got" /\ lst.err = Nil) =>
        /\ Len(lst.inventories) = maxItems =>
              IsDecimalOf(lst.newCursor, Atoi(lst.lastCursor).n + maxItems)
        /\ Len(lst.inventories) < maxItems => lst.newCursor = <<>>
        /\ Len(lst.inventories) <= maxItems

\* With more than maxItems matching entities, the call with lastCursor "50"
\* has returned maxItems entities and the newCursor "100".
FullPageGivesCursorWitness ==
    /\ lst.pc = "got" /\ lst.err = Nil
    /\ lst.lastCursor = <<"5", "0">>
    /\ Len(lst.inventories) = maxItems
    /\ lst.newCursor = <<"1", "0", "0">>
    /\ Len(Ranked(lst.n, lst.personalities)) > maxItems

\* C10, as claimed: for a lastCursor that stands for the number N >= 0,
\* FindInventories returns the entities ranked N .. N + maxItems - 1 among
\* those that match every filter, by descending UsageCount; for a lastCursor
\* that stands for no number, those ranked 0 .. maxItems - 1.
CursorIsOffsetAsClaimed ==
    LET a == Atoi(lst.lastCursor)
        N == IF a.err = Nil THEN a.n ELSE 0
        ranked == Ranked(lst.n, lst.personalities)
    IN  (lst.pc = "got" /\ lst.err = Nil /\ N >= 0) =>
            lst.inventories =
                SubSeq(ranked, N + 1,
                       IF Len(ranked) < N + maxItems THEN Len(ranked)
                       ELSE N + maxItems)

\* C19, as claimed: a caller that starts with the empty lastCursor and then
\* passes each newCursor it is given as the next lastCursor is given no
\* entity twice; it needs no more calls than there are pages of maxItems
\* among the matching entities (one more when the last page is full); and
\* when it is given the empty newCursor with entities, it has been given
\* every matching entity.
PaginationCoversAsClaimed ==
    LET ranked == Ranked(lst.n, lst.personalities)
        given == {lst.seen[m] : m \in DOMAIN lst.seen}
    IN  (lst.first = <<>> /\ lst.pc = "got" /\ lst.err = Nil) =>
            /\ Cardinality(given) = Len(lst.seen)
            /\ lst.pages <= (Len(ranked) \div maxItems) + 1
            /\ (lst.newCursor = <<>> /\ lst.inventories # <<>>) =>
                  given = {ListEntity(ranked[m]).FileID : m \in DOMAIN ranked}

====
